---------------------------- MODULE Spec2Model ----------------------------
(***************************************************************************)
(* Model of the quota-aware, auto-paginating YouTube aggregator            *)
(* (src/youtube_fetcher.py, YouTubeDataFetcher.search_videos), of its      *)
(* cached caller load_youtube_data and of the quota bookkeeping kept in    *)
(* the Streamlit session state (src/app.py); of the scoring functions     *)
(* (src/virality_scorer.py, src/youtube_fetcher.py), of the reset          *)
(* countdown of the quota display, and of fetch_posts of RealDataFetcher   *)
(* (src/real_data_fetcher.py) and MockDataFetcher (src/data_fetcher.py).   *)
(*                                                                         *)
(* The upstream (YouTube Data API) is a black box: every call may raise,   *)
(* and what it returns is drawn from small sets.  The items of a page are  *)
(* drawn when the item loop reaches them; the upstream is free to have     *)
(* put any item there, so this is the same set of runs as drawing the      *)
(* whole page when it is fetched.                                          *)
(***************************************************************************)
EXTENDS Integers, Sequences, FiniteSets, TLC

VARIABLES
    \* ---- search_videos: parameters
    target_results, max_api_calls, min_views, min_subscribers, page_token,
    \* ---- search_videos: locals
    sv_pc,                 \* position in search_videos
    all_videos,            \* the accumulator (line 55)
    current_page_token,    \* line 56
    api_calls,             \* line 57
    search_response,       \* the last search response (line 64), if any
    n_videos,              \* len(videos_response['items']) of the current page
    video_idx,             \* videos of the current page already visited
    sv_error,              \* which upstream call raised, if one did
    sv_ret,                \* the tuple search_videos returned (line 174)
    upstream_ideal,        \* history: so far every page was full, had a next
                           \* token, and every visited item passed the filter
    \* ---- app.py: one browser session
    pc,                    \* position of the script run
    now,                   \* the clock, in hours since 00:00 UTC of day 0
    event,                 \* the widget interaction that started the run
    session_ready,         \* session-state keys of lines 146-158 exist
    platform, active_hashtag, active_limit, just_searched,
    youtube_video_type,    \* session key set by the YouTube form (line 271)
    youtube_quota_used, youtube_last_reset_day,
    youtube_key,           \* st.secrets has a YouTube key
    cache,                 \* st.cache_data store of load_youtube_data
    lyd_source,            \* how this run's load_youtube_data was served
    lyd_ret,               \* the 6-tuple load_youtube_data returned (396)
    events_done,           \* widget interactions of the session so far
    \* ---- fetch_posts of RealDataFetcher / MockDataFetcher
    fetcher,               \* the class whose fetch_posts is running
    fp_pc,                 \* position in fetch_posts
    fp_limit,              \* the limit argument
    fp_videos,             \* len(videos) of the upstream response (Real)
    fp_i,                  \* items of the for loop already visited
    parsed_data,           \* the accumulator (parsed_data / data)
    fp_ret,                \* the rows of the returned DataFrame
    \* ---- a pure function called on its own
    fn_name, fn_pc, fn_args, fn_ret,
    \* ---- requests that share one quota state
    req,                   \* each request's position, the date and the
                           \* count it read, and the units it records
    recorded,              \* history: units recorded since the date advanced
    overlapped,            \* history: a request started while another ran
    moved                  \* history: the date advanced while a request ran

svVars == <<target_results, max_api_calls, min_views, min_subscribers,
            page_token, sv_pc, all_videos, current_page_token, api_calls,
            search_response, n_videos, video_idx, sv_error, sv_ret,
            upstream_ideal>>
appVars == <<pc, now, event, session_ready, platform, active_hashtag,
             active_limit, just_searched, youtube_quota_used,
             youtube_last_reset_day, youtube_key, cache, lyd_source, lyd_ret,
             youtube_video_type, events_done>>
uiVars == <<youtube_video_type, events_done>>
fpVars == <<fetcher, fp_pc, fp_limit, fp_videos, fp_i, parsed_data, fp_ret>>
fnVars == <<fn_name, fn_pc, fn_args, fn_ret>>
raceVars == <<req, recorded, overlapped, moved>>
auxVars == <<fpVars, fnVars, raceVars>>
vars == <<svVars, appVars, auxVars>>

---------------------------------------------------------------------------
(* Bounds of the model *)

\* Items per upstream page (the code asks for maxResults=50, line 68).
PageSize == 2
\* Largest target_results tried when search_videos is called directly.
MaxTarget == 3
\* Largest max_api_calls tried when search_videos is called directly.
MaxCalls == 3

---------------------------------------------------------------------------
(* Values *)

None == "None"

\* viewCount samples an upstream video may carry (below / above a threshold).
ViewSamples == {0, 150}
\* subscriberCount samples an upstream channel may carry.
SubscriberSamples == {0, 150}
\* Thresholds tried: the signature defaults (0, 0) and the caller's (100, 100).
ThresholdSamples == {0, 100}

\* statistics of one video of videos_response: viewCount may be missing.
RawStatistics ==
    {[has_viewCount |-> FALSE, viewCount |-> 0]} \cup
    {[has_viewCount |-> TRUE, viewCount |-> v] : v \in ViewSamples}

\* What channels_response says about one video's channel: the channel may be
\* missing from the response, or present without a subscriberCount.
RawChannel ==
    {[listed |-> FALSE, has_count |-> FALSE, subscriberCount |-> 0],
     [listed |-> TRUE, has_count |-> FALSE, subscriberCount |-> 0]} \cup
    {[listed |-> TRUE, has_count |-> TRUE, subscriberCount |-> s] :
        s \in SubscriberSamples}

Tokens == {None, "next"}

NoResponse == [bound |-> FALSE, has_items |-> FALSE,
               nextPageToken |-> None, prevPageToken |-> None]

\* The search responses the upstream can give to a request for the page
\* that token tok names: any page but the first has a prevPageToken.
SearchResponses(tok) ==
    [bound : {TRUE}, has_items : BOOLEAN, nextPageToken : Tokens,
     prevPageToken : {IF tok = None THEN None ELSE "prev"}]

---------------------------------------------------------------------------
(* The scoring functions of src/virality_scorer.py and of                  *)
(* src/youtube_fetcher.py.  A score is a float with two decimals; the      *)
(* model holds it in hundredths, as the integer 100 * score.               *)

\* Significant bits of a Python float (an IEEE 754 double).
FloatMantissaBits == 53

\* the number of binary digits of n (0 for n = 0)
RECURSIVE BitLength(_)
BitLength(n) == IF n = 0 THEN 0 ELSE 1 + BitLength(n \div 2)

\* Long division of r / den in binary, after `have` significant bits of the
\* quotient (the last of them `last`) have been produced: whether the
\* quotient rounded to FloatMantissaBits bits, ties to even, is above (1),
\* below (-1) or equal to (0) the exact quotient.
RECURSIVE FloatSideFrom(_, _, _, _)
FloatSideFrom(r, den, have, last) ==
    IF r = 0 THEN 0
    ELSE IF have = FloatMantissaBits
    THEN IF 2 * r > den THEN 1
         ELSE IF 2 * r < den THEN -1
         ELSE IF last = 1 THEN 1 ELSE -1
    ELSE LET bit == IF 2 * r >= den THEN 1 ELSE 0
         IN  FloatSideFrom(2 * r - bit * den, den,
                           IF have = 0 /\ bit = 0 THEN 0 ELSE have + 1, bit)

\* num / den is a float: the exact quotient rounded to the nearest double.
\* FloatSide tells on which side of the exact quotient that double lies.
FloatSide(num, den) ==
    FloatSideFrom(num % den, den, BitLength(num \div den), (num \div den) % 2)

\* round(num / den, 2) for den >= 1, in hundredths.  round() gives the
\* hundredth nearest to the float it is handed.  When the exact quotient
\* is half way between two hundredths the float decides: above or below
\* the half-way point it goes to that side, and when it holds the
\* half-way point exactly (a multiple of 1/8) round() takes the even
\* neighbour.
Round2(num, den) ==
    LET q == (100 * num) \div den
        r == (100 * num) % den
        side == FloatSide(num, den)
    IN  IF 2 * r < den THEN q
        ELSE IF 2 * r > den THEN q + 1
        ELSE IF side > 0 THEN q + 1
        ELSE IF side < 0 THEN q
        ELSE IF q % 2 = 0 THEN q ELSE q + 1

\* virality_scorer.calculate_viral_score
calculate_viral_score(views, followers) ==
    IF followers = 0 THEN 0 ELSE Round2(views, followers)

\* youtube_fetcher.calculate_viral_score
yt_calculate_viral_score(views, subscribers) ==
    IF subscribers = 0 THEN Round2(views, 1) ELSE Round2(views, subscribers)

\* The labels, without the emoji each one starts with in the source.
\* (mutation of classify_virality: the bounds are exclusive)
classify_virality_exclusive(score) ==
    IF score > 1000 THEN "Mega Viral"
    ELSE IF score > 300 THEN "Trending"
    ELSE IF score > 100 THEN "Popular"
    ELSE "Normal"

\* virality_scorer.classify_virality
classify_virality(score) ==
    IF score >= 1000 THEN "Mega Viral"
    ELSE IF score >= 300 THEN "Trending"
    ELSE IF score >= 100 THEN "Popular"
    ELSE "Normal"

\* youtube_fetcher.classify_virality
yt_classify_virality(score) ==
    IF score >= 1000 THEN "Mega Viral"
    ELSE IF score >= 500 THEN "Viral"
    ELSE IF score >= 200 THEN "Trending"
    ELSE "Normal"

---------------------------------------------------------------------------
(* search_videos, src/youtube_fetcher.py *)

\* views = int(statistics.get('viewCount', 0))                    (line 110)
Views(st) == IF st.has_viewCount THEN st.viewCount ELSE 0

\* subscriber_map entry of a listed channel                   (lines 96-99)
SubscriberMapEntry(ch) ==
    LET subscriber_count == IF ch.has_count THEN ch.subscriberCount ELSE 1
    IN  IF subscriber_count > 0 THEN subscriber_count ELSE 1

\* subscribers = subscriber_map.get(channel_id, 1)                (line 111)
Subscribers(ch) == IF ch.listed THEN SubscriberMapEntry(ch) ELSE 1

\* (mutation of PassesFilter: a video is dropped only when both bounds fail)
PassesFilterEitherBound(views, subscribers) ==
    ~(views < min_views /\ subscribers < min_subscribers)

\* the filter of line 114, as "the video is kept"
PassesFilter(views, subscribers) ==
    ~(views < min_views \/ subscribers < min_subscribers)

\* (mutation of LoopCondition: the accumulator is compared with <=)
LoopConditionLenInclusive ==
    Len(all_videos) <= target_results /\ api_calls < max_api_calls

\* (mutation of LoopCondition: the call budget is compared with <=)
LoopConditionOffByOne ==
    Len(all_videos) < target_results /\ api_calls <= max_api_calls

\* the while condition of line 60
LoopCondition ==
    Len(all_videos) < target_results /\ api_calls < max_api_calls

\* all_videos[:target_results] for target_results >= 0            (line 168)
Trim(s, n) == SubSeq(s, 1, IF Len(s) < n THEN Len(s) ELSE n)

\* lines 55-57
SvEnter ==
    /\ sv_pc = "called"
    /\ all_videos' = <<>>
    /\ current_page_token' = page_token
    /\ api_calls' = 0
    /\ sv_pc' = "loop"
    /\ UNCHANGED auxVars
    /\ UNCHANGED <<target_results, max_api_calls, min_views, min_subscribers,
                   page_token, search_response, n_videos, video_idx,
                   sv_error, sv_ret, upstream_ideal, appVars>>

\* line 60, condition false: fall out of the while loop
SvLoopDone ==
    /\ sv_pc = "loop"
    /\ ~LoopCondition
    /\ sv_pc' = "exit"
    /\ UNCHANGED auxVars
    /\ UNCHANGED <<target_results, max_api_calls, min_views, min_subscribers,
                   page_token, all_videos, current_page_token, api_calls,
                   search_response, n_videos, video_idx, sv_error, sv_ret,
                   upstream_ideal, appVars>>

\* lines 60-72: the search call raises (transport / HTTP error)
SvSearchRaises ==
    /\ sv_pc = "loop"
    /\ LoopCondition
    /\ api_calls' = api_calls + 1
    /\ sv_error' = "search"
    /\ sv_pc' = "raised"
    /\ upstream_ideal' = FALSE
    /\ UNCHANGED auxVars
    /\ UNCHANGED <<target_results, max_api_calls, min_views, min_subscribers,
                   page_token, all_videos, current_page_token,
                   search_response, n_videos, video_idx, sv_ret, appVars>>

\* lines 60-75: the search call returns a page without items; break
SvSearchEmpty ==
    /\ sv_pc = "loop"
    /\ LoopCondition
    /\ api_calls' = api_calls + 1
    /\ \E r \in SearchResponses(current_page_token) :
          /\ ~r.has_items
          /\ search_response' = r
    /\ sv_pc' = "exit"
    /\ upstream_ideal' = FALSE
    /\ UNCHANGED auxVars
    /\ UNCHANGED <<target_results, max_api_calls, min_views, min_subscribers,
                   page_token, all_videos, current_page_token, n_videos,
                   video_idx, sv_error, sv_ret, appVars>>

\* lines 60-83: the page has items, the videos().list call raises
SvDetailsRaise ==
    /\ sv_pc = "loop"
    /\ LoopCondition
    /\ api_calls' = api_calls + 1
    /\ \E r \in SearchResponses(current_page_token) :
          /\ r.has_items
          /\ search_response' = r
    /\ sv_error' = "videos"
    /\ sv_pc' = "raised"
    /\ upstream_ideal' = FALSE
    /\ UNCHANGED auxVars
    /\ UNCHANGED <<target_results, max_api_calls, min_views, min_subscribers,
                   page_token, all_videos, current_page_token, n_videos,
                   video_idx, sv_ret, appVars>>

\* lines 60-92: the batched channels().list lookup raises
SvLookupRaises ==
    /\ sv_pc = "loop"
    /\ LoopCondition
    /\ api_calls' = api_calls + 1
    /\ \E r \in SearchResponses(current_page_token) :
          /\ r.has_items
          /\ search_response' = r
    /\ sv_error' = "channels"
    /\ sv_pc' = "raised"
    /\ upstream_ideal' = FALSE
    /\ UNCHANGED auxVars
    /\ UNCHANGED <<target_results, max_api_calls, min_views, min_subscribers,
                   page_token, all_videos, current_page_token, n_videos,
                   video_idx, sv_ret, appVars>>

\* lines 60-99: all three calls return; the item loop starts.
\* ns items came back from the search, nv of them still have details.
SvPageFetched ==
    /\ sv_pc = "loop"
    /\ LoopCondition
    /\ api_calls' = api_calls + 1
    /\ \E r \in SearchResponses(current_page_token), ns \in 1..PageSize :
          /\ r.has_items
          /\ search_response' = r
          /\ \E nv \in 0..ns :
                /\ n_videos' = nv
                /\ upstream_ideal' = (upstream_ideal /\ nv = PageSize
                                      /\ r.nextPageToken # None)
    /\ video_idx' = 0
    /\ sv_pc' = "items"
    /\ UNCHANGED auxVars
    /\ UNCHANGED <<target_results, max_api_calls, min_views, min_subscribers,
                   page_token, all_videos, current_page_token, sv_error,
                   sv_ret, appVars>>

\* the record appended at lines 135-157 (the fields the properties read)
VideoRecord(id, views, subscribers) ==
    [id |-> id, views |-> views, followers |-> subscribers,
     viral_score |-> yt_calculate_viral_score(views, subscribers),
     virality_label |->
        yt_classify_virality(yt_calculate_viral_score(views, subscribers))]

\* (mutation of Accumulate: the new record is put in front)
AccumulateInFront(acc, rec) == <<rec>> \o acc

\* all_videos.append(...)                                         (line 141)
Accumulate(acc, rec) == Append(acc, rec)

\* (mutation of AfterAppend: the mid-page break is missing)
AfterAppendNoBreak(kept) == "items"

\* lines 159-161: stop visiting the page once the accumulator is full
AfterAppend(kept) ==
    IF Len(kept) >= target_results THEN "page_end" ELSE "items"

\* lines 102-161: one pass of the for loop over videos_response['items']
SvVisitVideo ==
    /\ sv_pc = "items"
    /\ video_idx < n_videos
    /\ \E st \in RawStatistics, ch \in RawChannel :
          LET views == Views(st)
              subscribers == Subscribers(ch)
              kept == Accumulate(all_videos,
                                 VideoRecord(<<api_calls, video_idx + 1>>,
                                             views, subscribers))
          IN  IF ~PassesFilter(views, subscribers)
              THEN /\ all_videos' = all_videos          \* continue, line 115
                   /\ video_idx' = video_idx + 1
                   /\ sv_pc' = "items"
                   /\ upstream_ideal' = FALSE
              ELSE /\ all_videos' = kept                \* line 141
                   /\ video_idx' = video_idx + 1
                   /\ sv_pc' = AfterAppend(kept)
                   /\ UNCHANGED upstream_ideal
    /\ UNCHANGED auxVars
    /\ UNCHANGED <<target_results, max_api_calls, min_views, min_subscribers,
                   page_token, current_page_token, api_calls,
                   search_response, n_videos, sv_error, sv_ret, appVars>>

\* line 102: the for loop has visited every video of the page
SvVideosDone ==
    /\ sv_pc = "items"
    /\ video_idx = n_videos
    /\ sv_pc' = "page_end"
    /\ UNCHANGED auxVars
    /\ UNCHANGED <<target_results, max_api_calls, min_views, min_subscribers,
                   page_token, all_videos, current_page_token, api_calls,
                   search_response, n_videos, video_idx, sv_error, sv_ret,
                   upstream_ideal, appVars>>

\* (mutation of ContinuationToken: the previous-page token is read)
ContinuationTokenPrev(r) ==
    IF r.prevPageToken = None THEN None ELSE "next"

\* search_response.get('nextPageToken')                         (line 164)
ContinuationToken(r) == r.nextPageToken

\* lines 163-166
SvNextPage ==
    /\ sv_pc = "page_end"
    /\ current_page_token' = ContinuationToken(search_response)
    /\ sv_pc' = IF ContinuationToken(search_response) = None
                THEN "exit"                              \* break, line 166
                ELSE "loop"
    /\ n_videos' = 0                  \* the for loop's page is done with
    /\ video_idx' = 0
    /\ UNCHANGED auxVars
    /\ UNCHANGED <<target_results, max_api_calls, min_views, min_subscribers,
                   page_token, all_videos, api_calls, search_response,
                   sv_error, sv_ret, upstream_ideal, appVars>>

\* The tuple of line 174: (df, next_token, prev_token).
SvReturnValue ==
    <<Trim(all_videos, target_results),
      IF search_response.bound THEN search_response.nextPageToken ELSE None,
      IF search_response.bound THEN search_response.prevPageToken ELSE None>>

\* lines 168-174
SvExit ==
    /\ sv_pc = "exit"
    /\ sv_ret' = SvReturnValue
    /\ sv_pc' = "returned"
    /\ UNCHANGED auxVars
    /\ UNCHANGED <<target_results, max_api_calls, min_views, min_subscribers,
                   page_token, all_videos, current_page_token, api_calls,
                   search_response, n_videos, video_idx, sv_error,
                   upstream_ideal, appVars>>

SvStep ==
    \/ SvEnter
    \/ SvLoopDone
    \/ SvSearchRaises
    \/ SvSearchEmpty
    \/ SvDetailsRaise
    \/ SvLookupRaises
    \/ SvPageFetched
    \/ SvVisitVideo
    \/ SvVideosDone
    \/ SvNextPage
    \/ SvExit

\* no search_videos frame exists
SvLocalsUnset ==
    /\ all_videos = <<>>
    /\ current_page_token = None
    /\ api_calls = 0
    /\ search_response = NoResponse
    /\ n_videos = 0
    /\ video_idx = 0
    /\ sv_error = None
    /\ sv_ret = <<>>
    /\ upstream_ideal = TRUE

\* search_videos is not called at all
SvIdle ==
    /\ target_results = 0
    /\ max_api_calls = 0
    /\ min_views = 0
    /\ min_subscribers = 0
    /\ page_token = None
    /\ sv_pc = "none"
    /\ SvLocalsUnset

\* no fetch_posts is running
FpIdle ==
    /\ fetcher = None
    /\ fp_pc = "none"
    /\ fp_limit = 0
    /\ fp_videos = 0
    /\ fp_i = 0
    /\ parsed_data = <<>>
    /\ fp_ret = <<>>

\* The callers that may touch one quota state at the same time.
Requests == {1, 2}

\* a request that has not arrived
NoRequest == [pc |-> "idle", today |-> 0, read |-> 0, units |-> 0]

\* no request is touching the quota state
RaceIdle ==
    /\ req = [p \in Requests |-> NoRequest]
    /\ recorded = 0
    /\ overlapped = FALSE
    /\ moved = FALSE

\* no function is called on its own
FnIdle ==
    /\ fn_name = None
    /\ fn_pc = "none"
    /\ fn_args = <<>>
    /\ fn_ret = <<>>

---------------------------------------------------------------------------
(* app.py: one browser session of the Streamlit script *)

\* st.session_state.youtube_quota_used = 1530                     (line 153)
InitialQuota == 1530
\* max_api_calls: int = 5, the default load_youtube_data relies on (line 37)
DefaultMaxApiCalls == 5
\* min_views / min_subscribers passed by the script           (lines 402-403)
AppMinViews == 100
AppMinSubscribers == 100
\* pt_now = datetime.utcnow() - timedelta(hours=8)        (lines 157 and 162)
PTOffsetHours == 8
\* Hours the clock may advance in one explored session.
MaxHours == 1
\* Widget interactions (platform changes, form submits) in one explored
\* session.
MaxEvents == 3

\* (mutation of PTDate: the date is taken in UTC)
PTDateInUtc(t) == t \div 24

\* (datetime.utcnow() - timedelta(hours=8)).date(), as a day number
PTDate(t) == (t - PTOffsetHours) \div 24

\* Stand-ins for the "Target Results" choices [10, 25, 50] of the YouTube
\* form (line 261), none larger than a page as in the code.
YouTubeLimitChoices == {1, PageSize}
\* Stand-ins for the "Max Videos to Scan" choices [30, 50, 100] of the TikTok
\* form (line 217): below a page and, as 100 against maxResults 50, more
\* than a page.
TikTokLimitChoices == {1, PageSize + 1}
\* Two of the three options of the "Video Type" selectbox (lines 235-239);
\* "Long-form (>=60s)" differs from "Shorts Only (<60s)" only in the
\* videoDuration it stands for.
VideoTypes == {"All Videos", "Shorts Only (<60s)"}

\* A text is the sequence of its characters.  active_hashtag = None
\* (line 147) is the one-element sequence NoText, which no typed text equals.
NoText == <<None>>
\* What the user types into either search form: nothing, or a hashtag.
Queries == {<<>>, <<"#", "A", "I">>}

\* `not text`: None and the empty string are falsy               (line 295)
Falsy(text) == text = NoText \/ text = <<>>

\* lines 205-206: if not hashtag_input.startswith("#"): prefix it
WithHash(text) ==
    IF text # <<>> /\ text[1] = "#" THEN text ELSE <<"#">> \o text

\* lines 388-395: the video_duration argument derived from the session's
\* video type ('Shorts' in it: short; 'Long-form' in it: medium; any
\* otherwise, also when the key is not in the session state)
VideoDuration(video_type) ==
    IF video_type = "Shorts Only (<60s)" THEN "short"
    ELSE IF video_type = "Long-form (>=60s)" THEN "medium"
    ELSE "any"

NoEvent == [kind |-> "none", platform |-> None, query |-> NoText, limit |-> 0,
            video_type |-> None]

\* the selectbox of line 183 set to the other platform
PlatformEvents(p) ==
    {[NoEvent EXCEPT !.kind = "platform", !.platform = q] :
        q \in {"TikTok", "YouTube"} \ {p}}

\* "Search" pressed in the form platform p shows  (lines 197-220, 230-264)
SubmitEvents(p) ==
    IF p = "TikTok"
    THEN {[NoEvent EXCEPT !.kind = "submit", !.query = q, !.limit = l] :
             q \in Queries, l \in TikTokLimitChoices}
    ELSE {[NoEvent EXCEPT !.kind = "submit", !.query = q, !.limit = l,
                          !.video_type = v] :
             q \in Queries, l \in YouTubeLimitChoices, v \in VideoTypes}

\* str(e) of the exception an upstream call raised
ErrorText(which) ==
    CASE which = "search" -> "HttpError: search.list"
      [] which = "videos" -> "HttpError: videos.list"
      [] OTHER -> "HttpError: channels.list"

\* the except branch of load_youtube_data                     (lines 366-367)
LydExcept(msg) == <<<<>>, None, None, 0, "YouTube API", msg>>

\* load_youtube_data without a key                            (lines 346-347)
LydNoKey == <<<<>>, None, None, 0, "YouTube API", "No API Key">>

\* (mutation of LydFromReturn: three values are unpacked and a fixed cost
\* of 100 units is reported for the call)
LydFromReturnFixedCost(ret) ==
    IF ret[1] # <<>>
    THEN <<ret[1], ret[2], ret[3], 100, "YouTube API", "Success">>
    ELSE <<<<>>, None, None, 100, "YouTube API", "No Data">>

\* lines 352-365: the returned tuple is unpacked into four names
\* (df, next_token, prev_token, total_units); a tuple of another length
\* raises ValueError inside the try block.
LydFromReturn(ret) ==
    IF Len(ret) < 4
    THEN LydExcept("not enough values to unpack (expected 4, got "
                   \o ToString(Len(ret)) \o ")")
    ELSE IF Len(ret) > 4
    THEN LydExcept("too many values to unpack (expected 4)")
    ELSE IF ret[1] # <<>>
    THEN <<ret[1], ret[2], ret[3], ret[4], "YouTube API", "Success">>
    ELSE <<<<>>, None, None, ret[4], "YouTube API", "No Data">>

\* the value load_youtube_data computes once search_videos has ended
LydResult ==
    IF sv_pc = "raised" THEN LydExcept(ErrorText(sv_error))
    ELSE LydFromReturn(sv_ret)

\* the arguments st.cache_data keys the call on (those that vary): query,
\* max_results and video_duration                            (lines 396-406)
CacheKey ==
    <<active_hashtag, active_limit, VideoDuration(youtube_video_type)>>

\* An entry of st.cache_data(ttl=3600) (line 343) lives 3600 seconds from
\* the moment it is stored.  The clock counts whole hours, so an entry
\* stored during this hour is live (fresh); one stored during the previous
\* hour is live or expired, depending on the minutes; an older one is gone.
CacheEntry(ret) == [ret |-> ret, fresh |-> TRUE]
CacheHit == CacheKey \in DOMAIN cache
CacheMiss == IF CacheHit THEN ~cache[CacheKey].fresh ELSE TRUE
CacheAfterHour ==
    [k \in {j \in DOMAIN cache : cache[j].fresh} |->
        [cache[k] EXCEPT !.fresh = FALSE]]

\* One hour passes, at any point of a session: while the browser waits for
\* the user, between two lines of the script, while the data is loading.
\* Cache entries stored during the hour that ends may outlive it; those
\* stored before it are expired.
Tick ==
    /\ pc # "direct"
    /\ now < PTOffsetHours - 1 + MaxHours
    /\ now' = now + 1
    /\ cache' = CacheAfterHour
    /\ UNCHANGED <<auxVars, uiVars>>
    /\ UNCHANGED <<pc, event, session_ready, platform, active_hashtag,
                   active_limit, just_searched, youtube_quota_used,
                   youtube_last_reset_day, youtube_key, lyd_source, lyd_ret,
                   svVars>>

\* The browser asks for a script run: the first page load, or an
\* interaction other than the ones below.
UserReruns ==
    /\ pc = "idle"
    /\ event' = NoEvent
    /\ pc' = "init"
    /\ UNCHANGED <<auxVars, uiVars>>
    /\ UNCHANGED <<now, session_ready, platform, active_hashtag,
                   active_limit, just_searched, youtube_quota_used,
                   youtube_last_reset_day, youtube_key, cache, lyd_source,
                   lyd_ret, svVars>>

\* The user picks the other platform in the selectbox of line 183.
UserSelectsPlatform ==
    /\ pc = "idle"
    /\ session_ready
    /\ events_done < MaxEvents
    /\ events_done' = events_done + 1
    /\ event' \in PlatformEvents(platform)
    /\ pc' = "init"
    /\ UNCHANGED <<auxVars, youtube_video_type>>
    /\ UNCHANGED <<now, session_ready, platform, active_hashtag,
                   active_limit, just_searched, youtube_quota_used,
                   youtube_last_reset_day, youtube_key, cache, lyd_source,
                   lyd_ret, svVars>>

\* The user presses "Search" in the form of the current platform.
UserSubmitsSearch ==
    /\ pc = "idle"
    /\ session_ready
    /\ events_done < MaxEvents
    /\ events_done' = events_done + 1
    /\ event' \in SubmitEvents(platform)
    /\ pc' = "init"
    /\ UNCHANGED <<auxVars, youtube_video_type>>
    /\ UNCHANGED <<now, session_ready, platform, active_hashtag,
                   active_limit, just_searched, youtube_quota_used,
                   youtube_last_reset_day, youtube_key, cache, lyd_source,
                   lyd_ret, svVars>>

\* lines 145-158: session-state defaults, set once per session
ScriptInit ==
    /\ pc = "init"
    /\ IF session_ready
       THEN UNCHANGED <<platform, active_hashtag, youtube_quota_used,
                        youtube_last_reset_day>>
       ELSE /\ active_hashtag' = NoText
            /\ platform' = "TikTok"
            /\ youtube_quota_used' = InitialQuota
            /\ youtube_last_reset_day' = PTDate(now)
    /\ session_ready' = TRUE
    /\ pc' = "autoreset"
    /\ UNCHANGED <<auxVars, uiVars>>
    /\ UNCHANGED <<now, event, active_limit, just_searched, youtube_key,
                   cache, lyd_source, lyd_ret, svVars>>

\* (mutation of AutoReset: the counter is kept when the day advances)
AutoResetKeepsCount ==
    /\ pc = "autoreset"
    /\ IF PTDate(now) > youtube_last_reset_day
       THEN /\ youtube_quota_used' = youtube_quota_used
            /\ youtube_last_reset_day' = PTDate(now)
       ELSE UNCHANGED <<youtube_quota_used, youtube_last_reset_day>>
    /\ pc' = "sidebar"
    /\ UNCHANGED <<auxVars, uiVars>>
    /\ UNCHANGED <<now, event, session_ready, platform, active_hashtag,
                   active_limit, just_searched, youtube_key, cache,
                   lyd_source, lyd_ret, svVars>>

\* lines 160-165: the auto-reset
AutoReset ==
    /\ pc = "autoreset"
    /\ IF PTDate(now) > youtube_last_reset_day
       THEN /\ youtube_quota_used' = 0
            /\ youtube_last_reset_day' = PTDate(now)
       ELSE UNCHANGED <<youtube_quota_used, youtube_last_reset_day>>
    /\ pc' = "sidebar"
    /\ UNCHANGED <<auxVars, uiVars>>
    /\ UNCHANGED <<now, event, session_ready, platform, active_hashtag,
                   active_limit, just_searched, youtube_key, cache,
                   lyd_source, lyd_ret, svVars>>

\* lines 183-192: the platform selectbox changed; st.rerun()
SidebarPlatformChanged ==
    /\ pc = "sidebar"
    /\ event.kind = "platform"
    /\ platform' = event.platform
    /\ event' = NoEvent
    /\ pc' = "init"
    /\ UNCHANGED <<auxVars, uiVars>>
    /\ UNCHANGED <<now, session_ready, active_hashtag, active_limit,
                   just_searched, youtube_quota_used,
                   youtube_last_reset_day, youtube_key, cache, lyd_source,
                   lyd_ret, svVars>>

\* lines 222-226: the TikTok form was submitted; st.rerun()
SidebarTikTokSubmitted ==
    /\ pc = "sidebar"
    /\ event.kind = "submit"
    /\ platform = "TikTok"
    /\ active_hashtag' = WithHash(event.query)
    /\ active_limit' = event.limit
    /\ event' = NoEvent
    /\ pc' = "init"
    /\ UNCHANGED <<auxVars, uiVars>>
    /\ UNCHANGED <<now, session_ready, platform, just_searched,
                   youtube_quota_used, youtube_last_reset_day, youtube_key,
                   cache, lyd_source, lyd_ret, svVars>>

\* lines 266-276: the YouTube form was submitted; st.rerun()
SidebarYouTubeSubmitted ==
    /\ pc = "sidebar"
    /\ event.kind = "submit"
    /\ platform = "YouTube"
    /\ active_hashtag' = event.query
    /\ active_limit' = event.limit
    /\ youtube_video_type' = event.video_type
    /\ just_searched' = TRUE
    /\ event' = NoEvent
    /\ pc' = "init"
    /\ UNCHANGED <<auxVars, events_done>>
    /\ UNCHANGED <<now, session_ready, platform, youtube_quota_used,
                   youtube_last_reset_day, youtube_key, cache, lyd_source,
                   lyd_ret, svVars>>

\* active_limit when no search has set it yet                (lines 279-280)
TikTokDefaultLimit == 30
YouTubeDefaultLimit == 25

\* lines 168-282 when no widget of the sidebar fired; active_limit = 0
\* stands for the key not being in the session state
SidebarQuiet ==
    /\ pc = "sidebar"
    /\ event.kind = "none"
    /\ active_limit' =
          IF active_limit # 0 THEN active_limit
          ELSE IF platform = "TikTok" THEN TikTokDefaultLimit
          ELSE YouTubeDefaultLimit
    /\ pc' = "main"
    /\ UNCHANGED <<auxVars, uiVars>>
    /\ UNCHANGED <<now, event, session_ready, platform, active_hashtag,
                   just_searched, youtube_quota_used,
                   youtube_last_reset_day, youtube_key, cache, lyd_source,
                   lyd_ret, svVars>>

\* lines 295-320: no search text in the session (None, or the empty
\* keywords of a YouTube search); st.stop().  just_searched is left as it is.
MainStops ==
    /\ pc = "main"
    /\ Falsy(active_hashtag)
    /\ pc' = "idle"
    /\ UNCHANGED <<auxVars, uiVars>>
    /\ UNCHANGED <<now, event, session_ready, platform, active_hashtag,
                   active_limit, just_searched, youtube_quota_used,
                   youtube_last_reset_day, youtube_key, cache, lyd_source,
                   lyd_ret, svVars>>

\* lines 371-379 and 412-498 on the TikTok platform: the quota update, the
\* quota display and the clearing of just_searched are all skipped.
MainTikTok ==
    /\ pc = "main"
    /\ ~Falsy(active_hashtag)
    /\ platform = "TikTok"
    /\ pc' = "idle"
    /\ UNCHANGED <<auxVars, uiVars>>
    /\ UNCHANGED <<now, event, session_ready, platform, active_hashtag,
                   active_limit, just_searched, youtube_quota_used,
                   youtube_last_reset_day, youtube_key, cache, lyd_source,
                   lyd_ret, svVars>>

\* lines 380-406 and 346-347: no key in st.secrets and no live entry; the
\* cached function returns at once and its result is stored
LoadWithoutKey ==
    /\ pc = "main"
    /\ ~Falsy(active_hashtag)
    /\ platform = "YouTube"
    /\ ~youtube_key
    /\ CacheMiss
    /\ lyd_ret' = LydNoKey
    /\ cache' = [k \in DOMAIN cache \cup {CacheKey} |->
                    IF k = CacheKey THEN CacheEntry(LydNoKey) ELSE cache[k]]
    /\ lyd_source' = "nokey"
    /\ pc' = "quota"
    /\ UNCHANGED <<auxVars, uiVars>>
    /\ UNCHANGED <<now, event, session_ready, platform, active_hashtag,
                   active_limit, just_searched, youtube_quota_used,
                   youtube_last_reset_day, youtube_key, svVars>>

\* lines 343 and 396-406: st.cache_data holds a live entry for the arguments
LoadFromCache ==
    /\ pc = "main"
    /\ ~Falsy(active_hashtag)
    /\ platform = "YouTube"
    /\ CacheHit
    /\ lyd_ret' = cache[CacheKey].ret
    /\ lyd_source' = "cache"
    /\ pc' = "quota"
    /\ UNCHANGED <<auxVars, uiVars>>
    /\ UNCHANGED <<now, event, session_ready, platform, active_hashtag,
                   active_limit, just_searched, youtube_quota_used,
                   youtube_last_reset_day, youtube_key, cache, svVars>>

\* lines 349-360: no live entry; search_videos is called
LoadCallsFetcher ==
    /\ pc = "main"
    /\ ~Falsy(active_hashtag)
    /\ platform = "YouTube"
    /\ youtube_key
    /\ CacheMiss
    /\ target_results' = active_limit
    /\ max_api_calls' = DefaultMaxApiCalls
    /\ min_views' = AppMinViews
    /\ min_subscribers' = AppMinSubscribers
    /\ page_token' = None
    /\ sv_pc' = "called"
    /\ lyd_source' = "call"
    /\ pc' = "loading"
    /\ UNCHANGED <<auxVars, uiVars>>
    /\ UNCHANGED <<now, event, session_ready, platform, active_hashtag,
                   active_limit, just_searched, youtube_quota_used,
                   youtube_last_reset_day, youtube_key, cache, lyd_ret,
                   all_videos, current_page_token, api_calls,
                   search_response, n_videos, video_idx, sv_error, sv_ret,
                   upstream_ideal>>

\* st.cache_data stores what load_youtube_data returned
CacheStore ==
    [k \in DOMAIN cache \cup {CacheKey} |->
        IF k = CacheKey THEN CacheEntry(LydResult) ELSE cache[k]]

\* lines 352-367: search_videos has ended; the result is stored by
\* st.cache_data and handed to the script
LoadReturns ==
    /\ pc = "loading"
    /\ sv_pc \in {"returned", "raised"}
    /\ lyd_ret' = LydResult
    /\ cache' = CacheStore
    /\ pc' = "quota"
    /\ UNCHANGED <<auxVars, uiVars>>
    /\ UNCHANGED <<now, event, session_ready, platform, active_hashtag,
                   active_limit, just_searched, youtube_quota_used,
                   youtube_last_reset_day, youtube_key, lyd_source, svVars>>

\* The frame of search_videos is gone.  It ended when the function
\* returned; the model keeps its last values until the quota update has
\* run, so that what the script got can be compared with them.
FrameGone ==
    /\ sv_pc' = "none"
    /\ all_videos' = <<>>
    /\ current_page_token' = None
    /\ api_calls' = 0
    /\ search_response' = NoResponse
    /\ n_videos' = 0
    /\ video_idx' = 0
    /\ sv_error' = None
    /\ sv_ret' = <<>>
    /\ upstream_ideal' = TRUE
    /\ target_results' = 0
    /\ max_api_calls' = 0
    /\ min_views' = 0
    /\ min_subscribers' = 0
    /\ page_token' = None

\* lines 408-410
QuotaUpdate ==
    /\ pc = "quota"
    /\ youtube_quota_used' =
          IF just_searched /\ lyd_ret[6] = "Success"
          THEN youtube_quota_used + lyd_ret[4]
          ELSE youtube_quota_used
    /\ pc' = "display"
    /\ FrameGone
    /\ UNCHANGED <<auxVars, uiVars>>
    /\ UNCHANGED <<now, event, session_ready, platform, active_hashtag,
                   active_limit, just_searched, youtube_last_reset_day,
                   youtube_key, cache, lyd_source, lyd_ret>>

\* The script run ends: its locals (the result of load_youtube_data, the
\* frame of search_videos) are gone.
RunEnds ==
    /\ lyd_source' = "none"
    /\ lyd_ret' = <<>>
    /\ FrameGone

\* lines 412-496: the quota display; just_searched is cleared (490-494)
QuotaDisplay ==
    /\ pc = "display"
    /\ just_searched' = FALSE
    /\ pc' = "idle"
    /\ RunEnds
    /\ UNCHANGED <<auxVars, uiVars>>
    /\ UNCHANGED <<now, event, session_ready, platform, active_hashtag,
                   active_limit, youtube_quota_used, youtube_last_reset_day,
                   youtube_key, cache>>

\* A widget changes while the script runs: Streamlit abandons the run at
\* its next element call and starts a new one for the change.  In the
\* sidebar (line 183 on) and in the main area before the load nothing has
\* been done yet; in the quota display (line 413 on) lines 409-410 have
\* run and lines 490-494 have not, so just_searched stays as it is.
UserInterruptsRun ==
    /\ pc \in {"sidebar", "main", "display"}
    /\ pc = "sidebar" => event.kind = "none"
    /\ events_done < MaxEvents
    /\ events_done' = events_done + 1
    /\ event' \in PlatformEvents(platform) \cup SubmitEvents(platform)
    /\ pc' = "init"
    /\ RunEnds
    /\ UNCHANGED <<auxVars, youtube_video_type>>
    /\ UNCHANGED <<now, session_ready, platform, active_hashtag,
                   active_limit, just_searched, youtube_quota_used,
                   youtube_last_reset_day, youtube_key, cache>>

\* A widget changes while load_youtube_data runs: the function finishes
\* and st.cache_data stores its result, then the run is abandoned before
\* lines 408-410.
UserInterruptsLoad ==
    /\ pc = "loading"
    /\ sv_pc \in {"returned", "raised"}
    /\ events_done < MaxEvents
    /\ events_done' = events_done + 1
    /\ event' \in PlatformEvents(platform) \cup SubmitEvents(platform)
    /\ cache' = CacheStore
    /\ pc' = "init"
    /\ RunEnds
    /\ UNCHANGED <<auxVars, youtube_video_type>>
    /\ UNCHANGED <<now, session_ready, platform, active_hashtag,
                   active_limit, just_searched, youtube_quota_used,
                   youtube_last_reset_day, youtube_key>>

Init ==
    /\ pc = "idle"
    /\ now = PTOffsetHours - 1
    /\ event = NoEvent
    /\ session_ready = FALSE
    /\ platform = "TikTok"
    /\ active_hashtag = NoText
    /\ active_limit = 0
    /\ just_searched = FALSE
    /\ youtube_video_type = None
    /\ events_done = 0
    /\ youtube_quota_used = InitialQuota
    /\ youtube_last_reset_day = PTDate(now)
    /\ youtube_key \in BOOLEAN
    /\ cache = <<>>
    /\ lyd_source = "none"
    /\ lyd_ret = <<>>
    /\ target_results = 0
    /\ max_api_calls = 0
    /\ min_views = 0
    /\ min_subscribers = 0
    /\ page_token = None
    /\ sv_pc = "none"
    /\ SvLocalsUnset
    /\ FpIdle
    /\ FnIdle
    /\ RaceIdle

Next ==
    \/ Tick
    \/ UserReruns
    \/ UserSelectsPlatform
    \/ UserSubmitsSearch
    \/ ScriptInit
    \/ AutoReset
    \/ SidebarPlatformChanged
    \/ SidebarTikTokSubmitted
    \/ SidebarYouTubeSubmitted
    \/ SidebarQuiet
    \/ MainStops
    \/ MainTikTok
    \/ LoadWithoutKey
    \/ LoadFromCache
    \/ LoadCallsFetcher
    \/ SvStep
    \/ LoadReturns
    \/ QuotaUpdate
    \/ QuotaDisplay
    \/ UserInterruptsRun
    \/ UserInterruptsLoad

Spec == Init /\ [][Next]_vars

---------------------------------------------------------------------------
(* search_videos called directly, for every configuration *)

AppIdle ==
    /\ pc = "direct"
    /\ now = 0
    /\ event = NoEvent
    /\ session_ready = FALSE
    /\ platform = "TikTok"
    /\ active_hashtag = NoText
    /\ active_limit = 0
    /\ just_searched = FALSE
    /\ youtube_video_type = None
    /\ events_done = 0
    /\ youtube_quota_used = 0
    /\ youtube_last_reset_day = 0
    /\ youtube_key = FALSE
    /\ cache = <<>>
    /\ lyd_source = "none"
    /\ lyd_ret = <<>>
    /\ RaceIdle

InitAgg ==
    /\ target_results \in 0..MaxTarget
    /\ max_api_calls \in 0..MaxCalls
    /\ min_views \in ThresholdSamples
    /\ min_subscribers \in ThresholdSamples
    /\ page_token \in Tokens
    /\ sv_pc = "called"
    /\ SvLocalsUnset
    /\ AppIdle
    /\ FpIdle
    /\ FnIdle

NextAgg == SvStep

SpecAgg == InitAgg /\ [][NextAgg]_vars

---------------------------------------------------------------------------
(* Properties of search_videos, checked under SpecAgg *)

CeilDiv(a, b) == (a + b - 1) \div b

\* C1: the accumulator never holds more than target_results items at any
\* point of the loop, the returned frame has at most target_results rows,
\* and the final trim all_videos[:target_results] removes nothing.
C1_NeverMoreThanTarget ==
    /\ Len(all_videos) <= target_results
    /\ sv_pc = "returned" =>
          /\ Len(sv_ret[1]) <= target_results
          /\ sv_ret[1] = all_videos

\* C1 witness: the target was reached in the middle of a later page, with
\* videos of that page left unvisited.
C1_Witness ==
    /\ sv_pc = "page_end"
    /\ target_results >= 2
    /\ Len(all_videos) = target_results
    /\ api_calls >= 2
    /\ video_idx < n_videos

\* C2: the number of search calls (loop iterations) of one invocation
\* never exceeds max_api_calls.
C2_CallsWithinBudget == api_calls <= max_api_calls

\* C2 witness: the invocation ended because the budget was used up, short
\* of the target, although the last page had a continuation token.
C2_Witness ==
    /\ sv_pc = "returned"
    /\ max_api_calls >= 2
    /\ api_calls = max_api_calls
    /\ Len(all_videos) < target_results
    /\ search_response.nextPageToken # None

\* C3: when every page is full and has a continuation token, every visited
\* item passes the filter and max_api_calls >= ceil(target/page_size), the
\* invocation returns exactly target_results items after at most
\* ceil(target_results / page_size) search calls.
C3_IdealUpstreamReachesTarget ==
    (/\ sv_pc = "returned"
     /\ upstream_ideal
     /\ max_api_calls >= CeilDiv(target_results, PageSize))
    => /\ Len(sv_ret[1]) = target_results
       /\ api_calls <= CeilDiv(target_results, PageSize)

\* C3 witness: an ideal upstream and a target that needs a second page.
C3_Witness ==
    /\ sv_pc = "returned"
    /\ upstream_ideal
    /\ target_results > PageSize
    /\ max_api_calls >= CeilDiv(target_results, PageSize)
    /\ api_calls = CeilDiv(target_results, PageSize)
    /\ Len(sv_ret[1]) = target_results

---------------------------------------------------------------------------
(* Properties of load_youtube_data and of the quota counter, under Spec *)

\* this run's load_youtube_data called search_videos, which has ended, and
\* the script is about to run the quota update of lines 408-410
FetcherEnded == pc = "quota" /\ lyd_source = "call"

\* C4: when every item of every fetched page fails the filter, zero items
\* are returned and the caller observes a non-zero cost, the cost of the
\* calls made (at least one unit per search call).
C4_CostObservedWithoutResults ==
    (/\ FetcherEnded
     /\ sv_pc = "returned"
     /\ all_videos = <<>>
     /\ api_calls > 0)
    => /\ lyd_ret[1] = <<>>
       /\ lyd_ret[4] >= api_calls

\* C5: after a successful aggregation the quota update adds the cost of
\* that call (at least one unit per search call made) to
\* youtube_quota_used.
C5_QuotaAddsCallCost ==
    [][(/\ FetcherEnded
        /\ just_searched
        /\ sv_pc = "returned"
        /\ sv_ret[1] # <<>>
        /\ pc' = "display")
       => youtube_quota_used' >= youtube_quota_used + api_calls]_vars

\* C6: in every script run the auto-reset comes first: when the date in
\* the reference zone is later than the stored reset day the counter is set
\* to 0 and the reset day to the current date, otherwise both are kept; and
\* the counter grows only in the quota update, which the run reaches after
\* its auto-reset.
C6_ResetBeforeUse ==
    [][/\ (pc = "autoreset" /\ pc' = "sidebar") =>
            IF PTDate(now) > youtube_last_reset_day
            THEN /\ youtube_quota_used' = 0
                 /\ youtube_last_reset_day' = PTDate(now)
            ELSE /\ youtube_quota_used' = youtube_quota_used
                 /\ youtube_last_reset_day' = youtube_last_reset_day
       /\ (youtube_quota_used' > youtube_quota_used) =>
            (pc = "quota" /\ pc' = "display")
       /\ (pc' = "quota") => (pc \in {"main", "loading", "quota"})
       /\ (pc' = "loading") => (pc \in {"main", "loading"})
       /\ (pc' = "main") => (pc \in {"sidebar", "main"})
       /\ (pc' = "sidebar") => (pc \in {"autoreset", "sidebar"})]_vars

\* C6 witness: a run whose auto-reset found the day advanced has reached
\* its quota update with the counter at 0.
C6_Witness ==
    /\ pc = "quota"
    /\ youtube_quota_used = 0
    /\ youtube_last_reset_day = PTDate(now)
    /\ just_searched

\* C7: a result served from the cache of load_youtube_data adds nothing to
\* youtube_quota_used.
C7_CacheHitAddsNothing ==
    [][(pc = "quota" /\ lyd_source = "cache" /\ pc' = "display")
       => youtube_quota_used' = youtube_quota_used]_vars

\* C7 witness: a search submitted again with the same parameters was
\* served from the cache and the quota update has run.
C7_Witness ==
    /\ pc = "display"
    /\ lyd_source = "cache"
    /\ just_searched

\* C8: when the search call of a page k > 1 raises, the caller gets an
\* error status together with the items accumulated from pages 1..k-1.
C8_PartialResultsPreserved ==
    (/\ FetcherEnded
     /\ sv_pc = "raised"
     /\ sv_error = "search"
     /\ api_calls > 1)
    => /\ lyd_ret[6] = ErrorText("search")
       /\ lyd_ret[1] = all_videos

\* C10: every aggregation ends in Success when the result is non-empty,
\* in No Data when it is empty and no upstream call failed, and in an error
\* status only when an upstream call failed.
C10_StatusClassifiesOutcome ==
    FetcherEnded =>
       /\ (sv_pc = "returned" /\ sv_ret[1] # <<>>) => lyd_ret[6] = "Success"
       /\ (sv_pc = "returned" /\ sv_ret[1] = <<>>) => lyd_ret[6] = "No Data"
       /\ (lyd_ret[6] \notin {"Success", "No Data"}) => sv_pc = "raised"

---------------------------------------------------------------------------
(* Lookup failures in search_videos, under SpecAgg *)

\* C9: a failure of the batched subscriber lookup never aborts the page or
\* the aggregation.
C9_LookupFailureNotEscalated ==
    sv_error = "channels" => sv_pc # "raised"

---------------------------------------------------------------------------
(* End-to-end scenarios of load_youtube_data, under Spec *)

\* C11: an aggregation that needs two pages (the first holds fewer passing
\* items than the target, the second completes the target and carries no
\* continuation token) hands the caller target_results items, a cost of
\* one search unit plus one batched-lookup unit per page, and the status
\* Success.
C11_TwoPagesEndToEnd ==
    (/\ FetcherEnded
     /\ sv_pc = "returned"
     /\ api_calls = 2
     /\ Len(sv_ret[1]) = target_results
     /\ sv_ret[2] = None)
    => /\ Len(lyd_ret[1]) = target_results
       /\ lyd_ret[4] = api_calls + api_calls
       /\ lyd_ret[6] = "Success"

\* C12: when the first page is empty the aggregation stops after that one
\* search call without a lookup call, and the caller gets zero items, the
\* status No Data and the cost of exactly one search call.
C12_EmptyFirstPage ==
    (/\ FetcherEnded
     /\ sv_pc = "returned"
     /\ api_calls = 1
     /\ ~search_response.has_items)
    => /\ sv_ret[1] = <<>>
       /\ lyd_ret[1] = <<>>
       /\ lyd_ret[6] = "No Data"
       /\ lyd_ret[4] = api_calls

---------------------------------------------------------------------------
(* Further properties of search_videos, under SpecAgg *)

\* C13: with target_results = 0 search_videos makes no upstream call (the
\* loop body is never entered, no response is ever bound) and returns an
\* empty result with both continuation tokens None.
C13_ZeroTargetMakesNoCall ==
    target_results = 0 =>
       /\ api_calls = 0
       /\ search_response = NoResponse
       /\ all_videos = <<>>
       /\ sv_pc \in {"called", "loop", "exit", "returned"}
       /\ sv_pc = "returned" => sv_ret = <<<<>>, None, None>>

\* C13 witness: a call with target 0 has returned although it had a call
\* budget and was given a page token to start from.
C13_Witness ==
    /\ target_results = 0
    /\ sv_pc = "returned"
    /\ max_api_calls > 0
    /\ page_token # None

\* C14: every item of the accumulator and of the returned result has
\* views >= min_views and followers >= min_subscribers, followers being the
\* subscriber count after the default / floor to 1.
C14_ResultPassesFilter ==
    /\ \A i \in 1..Len(all_videos) :
          /\ all_videos[i].views >= min_views
          /\ all_videos[i].followers >= min_subscribers
          /\ all_videos[i].followers >= 1
    /\ sv_pc = "returned" =>
          \A i \in 1..Len(sv_ret[1]) :
             /\ sv_ret[1][i].views >= min_views
             /\ sv_ret[1][i].followers >= min_subscribers

\* C14 witness: under non-zero thresholds a call returned an item that is
\* not the first of its page: the one before it was visited and dropped.
C14_Witness ==
    /\ sv_pc = "returned"
    /\ min_views > 0
    /\ min_subscribers > 0
    /\ Len(sv_ret[1]) >= 1
    /\ sv_ret[1][1].id = <<1, 2>>

\* C20: the result is an order-preserving subsequence of the concatenation
\* of the fetched pages: an item is identified by its page and its position
\* on that page, the items of the accumulator and of the result are in
\* strictly increasing (page, position) order (upstream order kept, nothing
\* twice, no reordering by viral score), and each comes from a fetched page.
C20_UpstreamOrderKept ==
    LET Before(a, b) == a[1] < b[1] \/ (a[1] = b[1] /\ a[2] < b[2])
        Ordered(s) == \A i, j \in 1..Len(s) :
                         i < j => Before(s[i].id, s[j].id)
    IN  /\ Ordered(all_videos)
        /\ \A i \in 1..Len(all_videos) :
              /\ all_videos[i].id[1] \in 1..api_calls
              /\ all_videos[i].id[2] \in 1..PageSize
        /\ sv_pc = "returned" =>
              /\ Ordered(sv_ret[1])
              /\ sv_ret[1] = SubSeq(all_videos, 1, Len(sv_ret[1]))

\* C20 witness: a result with items of two pages in which a later item has
\* the higher viral score, the order a sort by score would have undone.
C20_Witness ==
    /\ sv_pc = "returned"
    /\ Len(sv_ret[1]) >= 2
    /\ sv_ret[1][1].id[1] < sv_ret[1][2].id[1]
    /\ sv_ret[1][1].viral_score < sv_ret[1][2].viral_score

---------------------------------------------------------------------------
(* The scoring functions called on their own, for every argument *)

\* Largest views / followers argument tried.
MaxViews == 12
MaxFollowers == 9

\* Follower counts for which some views / followers is half way between
\* two hundredths and is not a float (1/40 = 0.025, 1/200 = 0.005).
TieFollowers == {40, 200}

\* Scores (in hundredths) around the bounds of both ladders.
ScoreSamples == {0, 1, 99, 100, 101, 199, 200, 201, 299, 300, 301,
                 499, 500, 501, 999, 1000, 1001, 15000}

ScoreFunctions == {"virality_scorer.calculate_viral_score",
                   "youtube_fetcher.calculate_viral_score"}
ClassifyFunctions == {"virality_scorer.classify_virality",
                      "youtube_fetcher.classify_virality"}

FnCalculateViralScore ==
    /\ fn_pc = "called"
    /\ fn_name = "virality_scorer.calculate_viral_score"
    /\ fn_ret' = calculate_viral_score(fn_args[1], fn_args[2])
    /\ fn_pc' = "returned"
    /\ UNCHANGED <<fn_name, fn_args, fpVars, svVars, appVars, raceVars>>

FnYtCalculateViralScore ==
    /\ fn_pc = "called"
    /\ fn_name = "youtube_fetcher.calculate_viral_score"
    /\ fn_ret' = yt_calculate_viral_score(fn_args[1], fn_args[2])
    /\ fn_pc' = "returned"
    /\ UNCHANGED <<fn_name, fn_args, fpVars, svVars, appVars, raceVars>>

\* classify_virality applied to each of two scores
FnClassifyVirality ==
    /\ fn_pc = "called"
    /\ fn_name = "virality_scorer.classify_virality"
    /\ fn_ret' = <<classify_virality(fn_args[1]),
                   classify_virality(fn_args[2])>>
    /\ fn_pc' = "returned"
    /\ UNCHANGED <<fn_name, fn_args, fpVars, svVars, appVars, raceVars>>

FnYtClassifyVirality ==
    /\ fn_pc = "called"
    /\ fn_name = "youtube_fetcher.classify_virality"
    /\ fn_ret' = <<yt_classify_virality(fn_args[1]),
                   yt_classify_virality(fn_args[2])>>
    /\ fn_pc' = "returned"
    /\ UNCHANGED <<fn_name, fn_args, fpVars, svVars, appVars, raceVars>>

InitScore ==
    /\ AppIdle
    /\ SvIdle
    /\ FpIdle
    /\ fn_name \in ScoreFunctions
    /\ fn_args \in (0..MaxViews) \X ((0..MaxFollowers) \cup TieFollowers)
    /\ fn_pc = "called"
    /\ fn_ret = <<>>

NextScore == FnCalculateViralScore \/ FnYtCalculateViralScore

SpecScore == InitScore /\ [][NextScore]_vars

InitClassify ==
    /\ AppIdle
    /\ SvIdle
    /\ FpIdle
    /\ fn_name \in ClassifyFunctions
    /\ fn_args \in ScoreSamples \X ScoreSamples
    /\ fn_pc = "called"
    /\ fn_ret = <<>>

NextClassify == FnClassifyVirality \/ FnYtClassifyVirality

SpecClassify == InitClassify /\ [][NextClassify]_vars

\* C18: both scoring functions return views/followers rounded to two
\* decimals (a hundredth nearest to the quotient) for followers >= 1, and
\* 0.0 for followers = 0.
C18_ZeroFollowersScoreZero ==
    (fn_pc = "returned" /\ fn_name \in ScoreFunctions) =>
       LET views == fn_args[1]
           followers == fn_args[2]
           diff == 100 * views - fn_ret * followers
       IN  IF followers = 0 THEN fn_ret = 0
           ELSE 2 * diff <= followers /\ -2 * diff <= followers

\* C19: each classify_virality gives every score exactly one label of its
\* ladder; the tier of a score is the number of bounds (10, 3, 1 for
\* virality_scorer; 10, 5, 2 for youtube_fetcher) it has reached, a score
\* equal to a bound being in the higher tier; and a greater score never
\* has a lower tier.
C19_LaddersTotalMonotonic ==
    (fn_pc = "returned" /\ fn_name \in ClassifyFunctions) =>
       LET vs == fn_name = "virality_scorer.classify_virality"
           Ladder == IF vs
                     THEN <<"Normal", "Popular", "Trending", "Mega Viral">>
                     ELSE <<"Normal", "Trending", "Viral", "Mega Viral">>
           Bounds == IF vs THEN {100, 300, 1000} ELSE {200, 500, 1000}
           Tier(label) == CHOOSE t \in 1..4 : Ladder[t] = label
           Reached(score) == Cardinality({b \in Bounds : score >= b})
       IN  /\ \A k \in 1..2 :
                 /\ \E t \in 1..4 : Ladder[t] = fn_ret[k]
                 /\ Tier(fn_ret[k]) = Reached(fn_args[k]) + 1
           /\ fn_args[1] <= fn_args[2] =>
                 Tier(fn_ret[1]) <= Tier(fn_ret[2])

\* C19 witness: a score exactly on a bound and a score just below it were
\* classified and got different labels.
C19_Witness ==
    /\ fn_pc = "returned"
    /\ fn_name = "virality_scorer.classify_virality"
    /\ fn_args = <<299, 300>>
    /\ fn_ret = <<"Popular", "Trending">>

---------------------------------------------------------------------------
(* The reset countdown of the quota display (src/app.py, lines 419-439),   *)
(* computed for every hour of the clock.  It writes nothing to the session *)
(* state.                                                                   *)

\* Last hour of the clock tried (hours since 00:00 UTC of day 0).
MaxClock == 71

\* now_utc.replace(hour=8, minute=0, second=0, microsecond=0)     (line 424)
ResetHourUTC == 8

\* (mutation of TargetUtc: the target moves to tomorrow only once now is
\* past today's boundary)
TargetUtcWhenPast(now_utc) ==
    LET today == (now_utc \div 24) * 24 + ResetHourUTC
    IN  IF now_utc > today THEN today + 24 ELSE today

\* target_utc, lines 424-426
TargetUtc(now_utc) ==
    LET today == (now_utc \div 24) * 24 + ResetHourUTC
    IN  IF now_utc >= today THEN today + 24 ELSE today

\* hours, minutes, seconds of fallback_str (lines 436-438): timedelta.seconds
\* is the part of the difference below one day
FallbackClock(remaining) ==
    LET seconds == (remaining % 24) * 3600
    IN  <<seconds \div 3600, (seconds % 3600) \div 60, (seconds % 3600) % 60>>

FnCountdown ==
    /\ fn_pc = "called"
    /\ fn_name = "app.countdown"
    /\ LET now_utc == fn_args[1]
           target_utc == TargetUtc(now_utc)
           remaining == target_utc - now_utc
       IN  fn_ret' = [target_utc |-> target_utc, remaining |-> remaining,
                      fallback |-> FallbackClock(remaining)]
    /\ fn_pc' = "returned"
    /\ UNCHANGED <<fn_name, fn_args, fpVars, svVars, appVars, raceVars>>

InitCountdown ==
    /\ AppIdle
    /\ SvIdle
    /\ FpIdle
    /\ fn_name = "app.countdown"
    /\ fn_args \in {<<t>> : t \in 0..MaxClock}
    /\ fn_pc = "called"
    /\ fn_ret = <<>>

NextCountdown == FnCountdown

SpecCountdown == InitCountdown /\ [][NextCountdown]_vars

\* C16: for every instant now the countdown target is a reset boundary
\* (08:00 UTC) strictly after now and at most 24 hours away (today's when
\* now is before it, tomorrow's when now is at or past it), and the time
\* shown is never negative.
C16_CountdownNeverNegative ==
    (fn_pc = "returned" /\ fn_name = "app.countdown") =>
       LET now_utc == fn_args[1]
       IN  /\ fn_ret.target_utc % 24 = 8
           /\ fn_ret.remaining = fn_ret.target_utc - now_utc
           /\ 0 < fn_ret.remaining
           /\ fn_ret.remaining <= 24
           /\ (now_utc % 24 < 8) <=>
                 (fn_ret.target_utc \div 24 = now_utc \div 24)
           /\ \A k \in 1..3 : fn_ret.fallback[k] >= 0

\* C16 witness: the display was computed exactly at 08:00 UTC of a later
\* day and counts down the full 24 hours to tomorrow's boundary.
C16_Witness ==
    /\ fn_pc = "returned"
    /\ fn_name = "app.countdown"
    /\ fn_args[1] > 24
    /\ fn_args[1] % 24 = 8
    /\ fn_ret.remaining = 24

---------------------------------------------------------------------------
(* fetch_posts of RealDataFetcher (src/real_data_fetcher.py) and of        *)
(* MockDataFetcher (src/data_fetcher.py)                                    *)

\* Largest limit argument and largest number of videos in a response.
MaxPosts == 2

\* followerCount samples the user-info endpoint may report.
FollowerCountSamples == {0, 150}

\* play_count of one video of the response: the key may be missing.
RawPlayCounts ==
    {[has_play_count |-> FALSE, play_count |-> 0]} \cup
    {[has_play_count |-> TRUE, play_count |-> v] : v \in ViewSamples}

\* What happens when the follower count of a video's author is looked up:
\* the video's author is null; the author has no unique_id; the request or
\* the decoding of its answer raises; the answer lacks data / stats /
\* followerCount; followerCount is null; followerCount is a number.
UserInfoReplies ==
    {[kind |-> k, followerCount |-> 0] :
        k \in {"author_null", "no_unique_id", "raises", "no_count",
               "null_count"}} \cup
    {[kind |-> "count", followerCount |-> n] : n \in FollowerCountSamples}

\* views = video.get("play_count", 0)                              (line 53)
FpViews(play) == IF play.has_play_count THEN play.play_count ELSE 0

\* lines 60-63 with _fetch_user_followers (lines 112-131), for a reply
\* that is not a null followerCount
LookedUpFollowers(lk) ==
    IF lk.kind = "count" THEN lk.followerCount ELSE 1

\* (mutation of FpFollowers: the floor of lines 65-66 is missing)
FpFollowersNoFloor(lk) == LookedUpFollowers(lk)

\* followers after lines 60-66
FpFollowers(lk) ==
    IF LookedUpFollowers(lk) = 0 THEN 1 ELSE LookedUpFollowers(lk)

\* the post appended at lines 90-104 / 47-60 (the fields the properties read)
PostRecord(id, views, followers) ==
    [id |-> id, views |-> views, followers |-> followers,
     viral_score |-> calculate_viral_score(views, followers),
     virality_label |->
        classify_virality(calculate_viral_score(views, followers))]

\* lines 34-37 and 108-110: the request raises, the status is an error or
\* the body is not JSON; the empty frame is returned
FpRequestFails ==
    /\ fetcher = "RealDataFetcher"
    /\ fp_pc = "called"
    /\ fp_ret' = <<>>
    /\ fp_pc' = "returned"
    /\ UNCHANGED <<fetcher, fp_limit, fp_videos, fp_i, parsed_data, fnVars,
                   svVars, appVars, raceVars>>

\* lines 40-42: the response has no data.videos
FpNoVideosKey ==
    /\ fetcher = "RealDataFetcher"
    /\ fp_pc = "called"
    /\ fp_ret' = <<>>
    /\ fp_pc' = "returned"
    /\ UNCHANGED <<fetcher, fp_limit, fp_videos, fp_i, parsed_data, fnVars,
                   svVars, appVars, raceVars>>

\* lines 44-49: the response lists n videos (the code does not hold the
\* upstream to the limit it asked for)
FpResponse ==
    /\ fetcher = "RealDataFetcher"
    /\ fp_pc = "called"
    /\ \E n \in 0..MaxPosts : fp_videos' = n
    /\ fp_i' = 0
    /\ parsed_data' = <<>>
    /\ fp_pc' = "loop"
    /\ UNCHANGED <<fetcher, fp_limit, fp_ret, fnVars, svVars, appVars, raceVars>>

\* lines 51-104: one pass of the for loop.  A null followerCount makes the
\* division of line 68 raise, a null author makes line 93 raise; the
\* except of line 108 then returns the empty frame.
FpVisitVideo ==
    /\ fetcher = "RealDataFetcher"
    /\ fp_pc = "loop"
    /\ fp_i < fp_videos
    /\ \E play \in RawPlayCounts, lk \in UserInfoReplies, old \in BOOLEAN :
          IF lk.kind = "null_count" \/ (lk.kind = "author_null" /\ ~old)
          THEN /\ fp_ret' = <<>>
               /\ fp_pc' = "returned"
               /\ UNCHANGED <<fp_i, parsed_data>>
          ELSE /\ parsed_data' =
                     IF old THEN parsed_data          \* continue, line 77
                     ELSE Append(parsed_data,
                                 PostRecord(fp_i + 1, FpViews(play),
                                            FpFollowers(lk)))
               /\ fp_i' = fp_i + 1
               /\ UNCHANGED <<fp_pc, fp_ret>>
    /\ UNCHANGED <<fetcher, fp_limit, fp_videos, fnVars, svVars, appVars, raceVars>>

\* line 106
FpLoopDone ==
    /\ fetcher = "RealDataFetcher"
    /\ fp_pc = "loop"
    /\ fp_i = fp_videos
    /\ fp_ret' = parsed_data
    /\ fp_pc' = "returned"
    /\ UNCHANGED <<fetcher, fp_limit, fp_videos, fp_i, parsed_data, fnVars,
                   svVars, appVars, raceVars>>

\* random.randint(500, 500000): samples                  (data_fetcher.py:33)
MockFollowerSamples == {500, 9999, 500000}

\* views of a mock post, lines 36-41: samples of randint(50000, 500000)
\* for a viral candidate with a small account, else the ends of
\* int(followers * uniform(0.1, 1.5)).  uniform(0.1, 1.5) is
\* 0.1 + 1.4 * random() with random() < 1: it never reaches 1.5, so the
\* largest views is the largest integer below 1.5 * followers.
MockViews(followers, is_viral_candidate) ==
    IF is_viral_candidate /\ followers < 10000
    THEN {50000, 500000}
    ELSE {followers \div 10, (3 * followers - 1) \div 2}

\* data_fetcher.py, line 15
MockEnter ==
    /\ fetcher = "MockDataFetcher"
    /\ fp_pc = "called"
    /\ parsed_data' = <<>>
    /\ fp_i' = 0
    /\ fp_pc' = "loop"
    /\ UNCHANGED <<fetcher, fp_limit, fp_videos, fp_ret, fnVars, svVars,
                   appVars, raceVars>>

\* data_fetcher.py, lines 31-60: one pass of the for loop
MockVisit ==
    /\ fetcher = "MockDataFetcher"
    /\ fp_pc = "loop"
    /\ fp_i < fp_limit
    /\ \E followers \in MockFollowerSamples, is_viral_candidate \in BOOLEAN :
          \E views \in MockViews(followers, is_viral_candidate) :
             parsed_data' = Append(parsed_data,
                                   PostRecord(fp_i, views, followers))
    /\ fp_i' = fp_i + 1
    /\ UNCHANGED <<fetcher, fp_pc, fp_limit, fp_videos, fp_ret, fnVars,
                   svVars, appVars, raceVars>>

\* data_fetcher.py, line 62
MockLoopDone ==
    /\ fetcher = "MockDataFetcher"
    /\ fp_pc = "loop"
    /\ fp_i = fp_limit
    /\ fp_ret' = parsed_data
    /\ fp_pc' = "returned"
    /\ UNCHANGED <<fetcher, fp_limit, fp_videos, fp_i, parsed_data, fnVars,
                   svVars, appVars, raceVars>>

FpStep ==
    \/ FpRequestFails
    \/ FpNoVideosKey
    \/ FpResponse
    \/ FpVisitVideo
    \/ FpLoopDone
    \/ MockEnter
    \/ MockVisit
    \/ MockLoopDone

\* One of the three fetchers is called, with any arguments.
InitFetchers ==
    /\ AppIdle
    /\ FnIdle
    /\ \/ /\ target_results \in 0..MaxTarget
          /\ max_api_calls \in 0..MaxCalls
          /\ min_views \in ThresholdSamples
          /\ min_subscribers \in ThresholdSamples
          /\ page_token \in Tokens
          /\ sv_pc = "called"
          /\ SvLocalsUnset
          /\ FpIdle
       \/ /\ SvIdle
          /\ fetcher \in {"RealDataFetcher", "MockDataFetcher"}
          /\ fp_pc = "called"
          /\ fp_limit \in 0..MaxPosts
          /\ fp_videos = 0
          /\ fp_i = 0
          /\ parsed_data = <<>>
          /\ fp_ret = <<>>

NextFetchers == SvStep \/ FpStep

SpecFetchers == InitFetchers /\ [][NextFetchers]_vars

\* C15: every item a fetcher holds or returns (search_videos, fetch_posts
\* of RealDataFetcher, fetch_posts of MockDataFetcher) has followers >= 1
\* and viral_score >= 0, whatever follower or subscriber count the
\* upstream reported: 0, none, or no channel / author at all.
C15_FollowersFlooredScoreNonNegative ==
    LET Sound(s) == \A i \in 1..Len(s) :
                       s[i].followers >= 1 /\ s[i].viral_score >= 0
    IN  /\ Sound(all_videos)
        /\ sv_pc = "returned" => Sound(sv_ret[1])
        /\ Sound(parsed_data)
        /\ Sound(fp_ret)

\* C15 witness: RealDataFetcher returned two posts, the first with the
\* follower count 1 the code puts in place of a count of 0, a missing
\* count or a failed lookup, the second with the count reported.
C15_Witness ==
    /\ fetcher = "RealDataFetcher"
    /\ fp_pc = "returned"
    /\ Len(fp_ret) = 2
    /\ fp_ret[1].followers = 1
    /\ fp_ret[1].viral_score = 100 * fp_ret[1].views
    /\ fp_ret[1].views > 0
    /\ fp_ret[2].followers > 1

---------------------------------------------------------------------------
(* End of results, the search flag and the reset instant, under Spec *)

\* C21: when the last fetched page carries no continuation token the
\* invocation ends short of the target with calls left in the budget, and
\* the caller gets the items accumulated so far with the status Success
\* and the next token None.
C21_EndOfResultsReturnsPartial ==
    (/\ FetcherEnded
     /\ sv_pc = "returned"
     /\ search_response.has_items
     /\ search_response.nextPageToken = None
     /\ all_videos # <<>>
     /\ Len(all_videos) < target_results
     /\ api_calls < max_api_calls)
    => /\ sv_ret[1] = all_videos
       /\ sv_ret[2] = None
       /\ lyd_ret[1] = all_videos
       /\ lyd_ret[2] = None
       /\ lyd_ret[6] = "Success"

\* C22: a submitted YouTube search adds its cost at most once.  The flag
\* just_searched is raised only by the submit of the YouTube form; the
\* counter grows only in the quota update of a run that has the flag; the
\* run that follows the submit ends with the flag cleared, so no run waits
\* for the user with the flag raised; and a step taken without the flag
\* leaves the counter alone or, in the auto-reset, sets it to 0.
C22_CostAddedAtMostOnce ==
    [][/\ (just_searched' /\ ~just_searched) =>
            (pc = "sidebar" /\ event.kind = "submit" /\ platform = "YouTube")
       /\ (youtube_quota_used' > youtube_quota_used) =>
            (pc = "quota" /\ pc' = "display" /\ just_searched)
       /\ (pc' = "idle") => ~just_searched'
       /\ (~just_searched /\ youtube_quota_used' # youtube_quota_used) =>
            (pc = "autoreset" /\ youtube_quota_used' = 0)]_vars

\* C23: the instant the reset countdown targets is the instant at which
\* the date the auto-reset compares (the date of UTC minus 8 hours)
\* advances: for the instant at which a run renders the countdown, and for
\* every instant of the clock, that date is the same from now up to the
\* target and one day later at the target; and the stored reset day never
\* moves backwards nor runs ahead of that date.
C23_CountdownTargetsDateAdvance ==
    [][/\ pc = "display" =>
            \A t0 \in {now} \cup (0..MaxClock) :
               LET target_utc == TargetUtc(t0)
               IN  /\ target_utc > t0
                   /\ \A t \in t0..(target_utc - 1) : PTDate(t) = PTDate(t0)
                   /\ PTDate(target_utc) = PTDate(t0) + 1
       /\ youtube_last_reset_day' >= youtube_last_reset_day
       /\ youtube_last_reset_day <= PTDate(now)
       /\ youtube_last_reset_day' <= PTDate(now')]_vars

\* C23 witness: a run renders the countdown at the very instant an earlier
\* countdown of the session targeted (08:00 UTC); its auto-reset has moved
\* the stored day to the new date and set the counter to 0.
C23_Witness ==
    /\ pc = "display"
    /\ now = TargetUtc(PTOffsetHours - 1)
    /\ youtube_last_reset_day = PTDate(now)
    /\ youtube_last_reset_day = PTDate(PTOffsetHours - 1) + 1
    /\ youtube_quota_used = 0

---------------------------------------------------------------------------
(* Two requests on one quota state.  Section 5 of the design has the      *)
(* quota state shared by overlapping requests; each request runs the      *)
(* quota sequence of src/app.py, the reset check of lines 160-165 and the *)
(* read-add-write of line 410, one line or less at a time.  The run       *)
(* starts in the last hour of a Pacific day, with a stored reset day of   *)
(* that day or the day before, and the date advances at most once.        *)

\* Units a request records.
UnitsSamples == {1, 2}

\* (mutation of ResetDue: the reset also fires on the stored day itself)
ResetDueInclusive(today, reset_day) == today >= reset_day

\* if pt_now.date() > st.session_state.youtube_last_reset_day    (line 163)
ResetDue(today, reset_day) == today > reset_day

\* request q is between its first and its last step
Running(q) == req[q].pc \notin {"idle", "done"}

\* another request is between its first and its last step
OtherRunning(p) == \E q \in Requests \ {p} : Running(q)

\* A request arrives with the units it is going to record.
RaceStart(p) ==
    /\ req[p].pc = "idle"
    /\ \E u \in UnitsSamples :
          req' = [req EXCEPT ![p] = [NoRequest EXCEPT !.pc = "clock",
                                                      !.units = u]]
    /\ overlapped' = (overlapped \/ OtherRunning(p))
    /\ UNCHANGED <<recorded, moved, svVars, appVars, fpVars, fnVars>>

\* line 162: pt_now = datetime.utcnow() - timedelta(hours=8); the request
\* keeps the date it read
RaceClock(p) ==
    /\ req[p].pc = "clock"
    /\ req' = [req EXCEPT ![p].today = PTDate(now), ![p].pc = "check"]
    /\ UNCHANGED <<recorded, overlapped, moved, svVars, appVars, fpVars, fnVars>>

\* line 163: the date the request read is compared with the reset day
\* stored at this moment
RaceCheck(p) ==
    /\ req[p].pc = "check"
    /\ req' = [req EXCEPT ![p].pc =
                  IF ResetDue(req[p].today, youtube_last_reset_day)
                  THEN "zero" ELSE "read"]
    /\ UNCHANGED <<recorded, overlapped, moved, svVars, appVars, fpVars, fnVars>>

\* line 164
RaceZero(p) ==
    /\ req[p].pc = "zero"
    /\ youtube_quota_used' = 0
    /\ req' = [req EXCEPT ![p].pc = "setday"]
    /\ UNCHANGED <<recorded, overlapped, moved, svVars, fpVars, fnVars>>
    /\ UNCHANGED <<pc, now, event, session_ready, platform, active_hashtag,
                   active_limit, just_searched, youtube_last_reset_day,
                   youtube_key, cache, lyd_source, lyd_ret, uiVars>>

\* line 165
RaceSetDay(p) ==
    /\ req[p].pc = "setday"
    /\ youtube_last_reset_day' = req[p].today
    /\ req' = [req EXCEPT ![p].pc = "read"]
    /\ UNCHANGED <<recorded, overlapped, moved, svVars, fpVars, fnVars>>
    /\ UNCHANGED <<pc, now, event, session_ready, platform, active_hashtag,
                   active_limit, just_searched, youtube_quota_used,
                   youtube_key, cache, lyd_source, lyd_ret, uiVars>>

\* line 410, youtube_quota_used += units_used: the count is read
RaceRead(p) ==
    /\ req[p].pc = "read"
    /\ req' = [req EXCEPT ![p].pc = "write", ![p].read = youtube_quota_used]
    /\ UNCHANGED <<recorded, overlapped, moved, svVars, appVars, fpVars, fnVars>>

\* line 410: the sum is stored
RaceWrite(p) ==
    /\ req[p].pc = "write"
    /\ youtube_quota_used' = req[p].read + req[p].units
    /\ recorded' = recorded + req[p].units
    /\ req' = [req EXCEPT ![p].pc = "done"]
    /\ UNCHANGED <<overlapped, moved, svVars, fpVars, fnVars>>
    /\ UNCHANGED <<pc, now, event, session_ready, platform, active_hashtag,
                   active_limit, just_searched, youtube_last_reset_day,
                   youtube_key, cache, lyd_source, lyd_ret, uiVars>>

\* The Pacific date advances: nothing is recorded yet on the new day.
RaceTick ==
    /\ now < PTOffsetHours
    /\ now' = now + 1
    /\ recorded' = 0
    /\ moved' = (moved \/ \E q \in Requests : Running(q))
    /\ UNCHANGED <<req, overlapped, svVars, fpVars, fnVars>>
    /\ UNCHANGED <<pc, event, session_ready, platform, active_hashtag,
                   active_limit, just_searched, youtube_quota_used,
                   youtube_last_reset_day, youtube_key, cache, lyd_source,
                   lyd_ret, uiVars>>

\* The quota state holds InitialQuota units, recorded today or left over
\* from yesterday.
InitRace ==
    /\ pc = "race"
    /\ now = PTOffsetHours - 1
    /\ event = NoEvent
    /\ session_ready = TRUE
    /\ platform = "YouTube"
    /\ active_hashtag = NoText
    /\ active_limit = 0
    /\ just_searched = FALSE
    /\ youtube_video_type = None
    /\ events_done = 0
    /\ youtube_quota_used = InitialQuota
    /\ youtube_last_reset_day \in {PTDate(now) - 1, PTDate(now)}
    /\ youtube_key = TRUE
    /\ cache = <<>>
    /\ lyd_source = "none"
    /\ lyd_ret = <<>>
    /\ req = [p \in Requests |-> NoRequest]
    /\ moved = FALSE
    /\ recorded = IF youtube_last_reset_day = PTDate(now)
                  THEN InitialQuota ELSE 0
    /\ overlapped = FALSE
    /\ SvIdle
    /\ FpIdle
    /\ FnIdle

NextRace ==
    \/ RaceTick
    \/ \E p \in Requests :
       \/ RaceStart(p)
       \/ RaceClock(p)
       \/ RaceCheck(p)
       \/ RaceZero(p)
       \/ RaceSetDay(p)
       \/ RaceRead(p)
       \/ RaceWrite(p)

SpecRace == InitRace /\ [][NextRace]_vars

\* every request has run its quota sequence to the end
AllRecorded == \A p \in Requests : req[p].pc = "done"

\* the stored reset day is the current Pacific date
ResetDayCurrent == youtube_last_reset_day = PTDate(now)

\* C17: when two requests run the quota sequence (reset check, then
\* read-add-write) on the same quota state, the final count can differ
\* from the sum of the units recorded since the last date advance: a usage
\* is lost, or usage of the day before survives the reset.  It happens
\* only when the sequence was not atomic: after both requests, with the
\* reset day current, a count other than that sum means that the two
\* sequences overlapped or that the date advanced inside one of them.
C17_WrongCountNeedsInterleaving ==
    (AllRecorded /\ ResetDayCurrent /\ youtube_quota_used # recorded)
       => (overlapped \/ moved)

\* C17 witness: both requests are done on one day, their sequences
\* overlapped, and the count is short of the units recorded: a recorded
\* usage is lost.
C17_Witness ==
    /\ AllRecorded
    /\ ResetDayCurrent
    /\ overlapped
    /\ ~moved
    /\ youtube_quota_used < recorded

\* the other outcome of C17: the date advanced between one request's read
\* and its write, the other request reset the count in between, and the
\* final count holds units of the day before
UsageSurvivesReset ==
    /\ AllRecorded
    /\ ResetDayCurrent
    /\ overlapped
    /\ youtube_quota_used > recorded

===========================================================================
